---- MODULE Spec2Model ----
(***************************************************************************)
(* Model of arcade/cli/model_client_wrapper.py: the chat turn handler      *)
(* (ModelClientWrapper.handle_chat_interaction) and the authorization flow *)
(* handler (ModelClientWrapper.handle_tool_authorization).                 *)
(*                                                                         *)
(* Text is a sequence of tokens: "text" is a run of ordinary characters,   *)
(* "url" is an http(s) URL, "[Link](" and ")" are the markdown wrapping    *)
(* that markdownify_urls puts around a URL.  The empty string is <<>>.     *)
(* A value that may be None is a record with a flag (isNone / present).    *)
(*                                                                         *)
(* The completion capability (client.chat.completions.create), the browser *)
(* launcher and the authorization poll are the environment: each either    *)
(* answers or raises.  The name `client` of lines 82 and 96 is a module    *)
(* global that the module itself never binds; the model takes it as bound  *)
(* by the environment, and an unbound `client` is one of the ways the      *)
(* completion step raises.                                                 *)
(***************************************************************************)
EXTENDS Integers, Sequences, FiniteSets, TLC

VARIABLES
    history,     \* the caller-owned list of turns, mutated in place
    pc,          \* position of the single thread of control
    kind,        \* the top-level call in progress or last made: none/chat/auth
    stream,      \* the stream argument of the current call
    auth,        \* the tool_authorization argument of handle_tool_authorization
    authStatus,  \* status of that authorization at the authorization service
    response,    \* the completion response being consumed (or last consumed)
    pos,         \* streamed mode: number of fragments consumed
    acc,         \* streamed mode: text accumulated so far
    h0,          \* history at entry of the top-level call
    hci0,        \* history at entry of handle_chat_interaction
    trace,       \* the external effects of the top-level call, in order
    requests,    \* the completion requests issued by the top-level call
    result,      \* the ChatInteractionResult returned by the top-level call
    raised,      \* where the top-level call raised, or "none"
    calls        \* number of top-level calls made

vars == <<history, pc, kind, stream, auth, authStatus, response, pos, acc,
          h0, hci0, trace, requests, result, raised, calls>>

-----------------------------------------------------------------------------
(* Bounds *)

MaxContent == 1
MaxCalls == 3

-----------------------------------------------------------------------------
(* Values *)

Tokens == {"text", "url"}

Texts == UNION {[1..n -> Tokens] : n \in 0..MaxContent}

\* message.content of a reply: None or a string
Contents == {[isNone |-> TRUE, text |-> <<>>]} \cup
            {[isNone |-> FALSE, text |-> t] : t \in Texts}

ReplyRoles == {"assistant", "system"}

ToolTurn == [role |-> "tool", content |-> <<"text">>]
UserTurn == [role |-> "user", content |-> <<"text">>]

ToolMessageLists == {<<>>, <<ToolTurn>>}

NoAuthorization == [present |-> FALSE, url |-> <<>>]

\* an authorization payload: absent, present without a URL, present with one
Authorizations == {NoAuthorization,
                   [present |-> TRUE, url |-> <<>>],
                   [present |-> TRUE, url |-> <<"url">>]}

Responses == [role : ReplyRoles, content : Contents,
              tool_messages : ToolMessageLists,
              tool_authorization : Authorizations]

NoResponse == [role |-> "none", content |-> [isNone |-> TRUE, text |-> <<>>],
               tool_messages |-> <<>>, tool_authorization |-> NoAuthorization]

\* the history a session starts from: empty, or the user's first turn
InitHistories == {<<>>, <<UserTurn>>}

NoResult == [returned |-> FALSE, history |-> <<>>, tool_messages |-> <<>>,
             tool_authorization |-> NoAuthorization]

\* ChatInteractionResult(history, tool_messages, tool_authorization)
ChatInteractionResult(h, tm, ta) ==
    [returned |-> TRUE, history |-> h, tool_messages |-> tm,
     tool_authorization |-> ta]

Front(s) == SubSeq(s, 1, Len(s) - 1)

RECURSIVE Count(_, _)
Count(s, e) ==
    IF s = <<>> THEN 0
    ELSE (IF Head(s) = e THEN 1 ELSE 0) + Count(Tail(s), e)

-----------------------------------------------------------------------------
(* Helpers of arcade.cli.utils *)

\* re.sub(r"(https?://\S+)", r"[Link](\1)", message): every URL is wrapped
RECURSIVE markdownify_urls(_)
markdownify_urls(m) ==
    IF m = <<>> THEN <<>>
    ELSE (IF Head(m) = "url" THEN <<"[Link](", "url", ")">> ELSE <<Head(m)>>)
         \o markdownify_urls(Tail(m))

\* the tool messages carried by a choice
get_tool_messages(r) == r.tool_messages

\* the authorization payload carried by a choice, None when absent
get_tool_authorization(r) ==
    IF r.tool_authorization.present THEN r.tool_authorization ELSE NoAuthorization

\* the fragments of a streamed response: one per token of its content
Fragments(r) == IF r.content.isNone THEN <<>> ELSE r.content.text


\* wait_for_authorization_completion returns once the status is resolved
wait_for_authorization_completion(status) == status = "resolved"

\* handle_streaming_content, at the end of the stream: the text is the one
\* that was rendered (links normalised when it was rendered as an assistant
\* reply), the side-channel data are those of the response
handle_streaming_content(r, text) ==
    [role |-> r.role,
     full_message |->
         IF r.role = "assistant" /\ ~get_tool_authorization(r).present
         THEN markdownify_urls(text) ELSE text,
     tool_messages |-> get_tool_messages(r),
     tool_authorization |-> get_tool_authorization(r)]

\* handle_streaming_content renders each fragment as it arrives, unless the
\* reply is an authorization request
StreamRenders(r) == ~(r.role = "assistant" /\ get_tool_authorization(r).present)

-----------------------------------------------------------------------------
(* ModelClientWrapper.handle_chat_interaction *)

\* the request sent without the latest turn of the history
CompletionRequest_DropsLatest(h, s) ==
    [messages |-> SubSeq(h, 1, Len(h) - 1), tool_choice |-> "generate", stream |-> s]

\* client.chat.completions.create(model, messages=history,
\*                                tool_choice="generate", user, stream)
CompletionRequest(h, s) ==
    [messages |-> h, tool_choice |-> "generate", stream |-> s]

\* message_content = response.choices[0].message.content or ""
MessageContent(content) ==
    IF content.isNone \/ content.text = <<>> THEN <<>> ELSE content.text

\* the authorization request rendered like any other reply
RendersReply_Always(role, ta) == TRUE

\* if role == "assistant" and tool_authorization: pass
\* elif role == "assistant": console.print(...)  else: console.print(...)
RendersReply(role, ta) == ~(role = "assistant" /\ ta.present)

\* the history keeps the reply as received, the links normalised for display only
NonStreamedMessage_Raw(role, content, ta) == MessageContent(content)

\* the message_content that reaches line 122 in non-streamed mode: only the
\* elif branch of line 113 reassigns it, to markdownify_urls(message_content)
NonStreamedMessage(role, content, ta) ==
    IF role = "assistant" /\ ~ta.present
    THEN markdownify_urls(MessageContent(content))
    ELSE MessageContent(content)

\* the reply turn appended before the tool messages
AppendToHistory_ReplyFirst(h, tm, role, content) ==
    (h \o <<[role |-> role, content |-> content]>>) \o tm

\* history += tool_messages; history.append({"role": role, "content": ...})
AppendToHistory(h, tm, role, content) ==
    (h \o tm) \o <<[role |-> role, content |-> content]>>

\* lines 96-124 on a history h and a non-streamed response r
NonStreamedResult(h, r) ==
    LET ta == get_tool_authorization(r)
        tm == get_tool_messages(r)
    IN ChatInteractionResult(
           AppendToHistory(h, tm, r.role, NonStreamedMessage(r.role, r.content, ta)),
           tm, ta)

\* lines 89-94 and 121-124 on a history h, a streamed response r and the
\* text its fragments accumulated to
StreamedResult(h, r, text) ==
    LET sr == handle_streaming_content(r, text)
    IN ChatInteractionResult(
           AppendToHistory(h, sr.tool_messages, sr.role, sr.full_message),
           sr.tool_messages, sr.tool_authorization)

\* a failed completion is tried again
Propagate_RetriesCompletion(where) ==
    IF where = "completion" THEN "hci" ELSE "idle"

\* a failed authorization poll is swallowed and the flow goes on
Propagate_SwallowsWait(where) ==
    IF where = "wait" THEN "hta_pop" ELSE "idle"

\* an exception is caught nowhere in the module: control leaves the call
Propagate(where) == "idle"

\* a replay that asks for authorization again re-enters the authorization flow
Return_Reauthorizes(k, ta) ==
    IF k = "auth" /\ ta.present THEN "hta" ELSE "idle"

\* return ChatInteractionResult(...): control goes back to the caller, also
\* when the call was the replay of handle_tool_authorization (line 153)
Return(k, ta) == "idle"

-----------------------------------------------------------------------------
(* ModelClientWrapper.handle_tool_authorization *)

\* if tool_authorization.url:
OpensBrowser(a) == a.url # <<>>

\* history.pop(0): the oldest turn removed instead of the latest
PopHistory_First(h) == Tail(h)

\* the pending turn left in place
PopHistory_None(h) == h

\* history.pop()
PopHistory(h) == Front(h)

\* the wait skipped: the pending turn removed right after the browser step
AfterBrowser_SkipsWait == "hta_pop"

\* the statement that follows the browser step (line 147) and the one that
\* follows the wait (line 152)
AfterBrowser == "hta_wait"
AfterWait == "hta_pop"

-----------------------------------------------------------------------------
(* The state machine *)

Init ==
    /\ history \in InitHistories
    /\ pc = "idle"
    /\ kind = "none"
    /\ stream = FALSE
    /\ auth = NoAuthorization
    /\ authStatus = "none"
    /\ response = NoResponse
    /\ pos = 0
    /\ acc = <<>>
    /\ h0 = history
    /\ hci0 = history
    /\ trace = <<>>
    /\ requests = <<>>
    /\ result = NoResult
    /\ raised = "none"
    /\ calls = 0

\* the caller starts a chat turn, at the start of the session or again after
\* a chat turn that raised, with the session's stream setting
CallChat(s) ==
    /\ pc = "idle"
    /\ calls < MaxCalls
    /\ kind # "auth"
    /\ ~result.returned
    /\ calls > 0 => s = stream
    /\ kind' = "chat"
    /\ stream' = s
    /\ auth' = NoAuthorization
    /\ authStatus' = "none"
    /\ response' = NoResponse
    /\ pos' = 0
    /\ acc' = <<>>
    /\ h0' = history
    /\ hci0' = history
    /\ trace' = <<>>
    /\ requests' = <<>>
    /\ result' = NoResult
    /\ raised' = "none"
    /\ calls' = calls + 1
    /\ pc' = "hci"
    /\ UNCHANGED history

\* the caller routes a result that carries an authorization payload to
\* handle_tool_authorization, with the same history and the session's
\* stream setting
CallAuth ==
    /\ pc = "idle"
    /\ calls < MaxCalls
    /\ result.returned
    /\ result.tool_authorization.present
    /\ kind' = "auth"
    /\ auth' = result.tool_authorization
    /\ authStatus' = "pending"
    /\ response' = NoResponse
    /\ pos' = 0
    /\ acc' = <<>>
    /\ h0' = history
    /\ hci0' = history
    /\ trace' = <<>>
    /\ requests' = <<>>
    /\ result' = NoResult
    /\ raised' = "none"
    /\ calls' = calls + 1
    /\ pc' = "hta"
    /\ UNCHANGED <<history, stream>>

\* an exception leaves the call
Raise(where) ==
    /\ raised' = where
    /\ pc' = Propagate(where)

\* line 82 / 96: the request is issued and the completion capability raises
CompletionFails ==
    /\ pc = "hci"
    /\ requests' = Append(requests, CompletionRequest(history, stream))
    /\ trace' = Append(trace, "request")
    /\ Raise("completion")
    /\ UNCHANGED <<history, kind, stream, auth, authStatus, response, pos, acc,
                   h0, hci0, result, calls>>

\* lines 96-124: the non-streamed branch, the appends and the return
NonStreamed(r) ==
    /\ pc = "hci"
    /\ ~stream
    /\ LET res == NonStreamedResult(history, r)
       IN /\ requests' = Append(requests, CompletionRequest(history, stream))
          /\ trace' = (trace \o <<"request">>)
                      \o (IF RendersReply(r.role, res.tool_authorization)
                          THEN <<"render">> ELSE <<>>)
                      \o <<"append">>
          /\ history' = res.history
          /\ result' = res
          /\ pc' = Return(kind, res.tool_authorization)
    /\ response' = r
    /\ UNCHANGED <<kind, stream, auth, authStatus, pos, acc, h0, hci0, raised,
                   calls>>

\* lines 82-88: the streamed request is issued and a stream comes back
StreamOpen(r) ==
    /\ pc = "hci"
    /\ stream
    /\ requests' = Append(requests, CompletionRequest(history, stream))
    /\ trace' = Append(trace, "request")
    /\ response' = r
    /\ pos' = 0
    /\ acc' = <<>>
    /\ pc' = "hci_stream"
    /\ UNCHANGED <<history, kind, stream, auth, authStatus, h0, hci0, result,
                   raised, calls>>

\* line 89: handle_streaming_content consumes the next fragment
StreamFragment ==
    /\ pc = "hci_stream"
    /\ pos < Len(Fragments(response))
    /\ acc' = Append(acc, Fragments(response)[pos + 1])
    /\ pos' = pos + 1
    /\ trace' = IF StreamRenders(response) THEN Append(trace, "render") ELSE trace
    /\ UNCHANGED <<history, pc, kind, stream, auth, authStatus, response, h0,
                   hci0, requests, result, raised, calls>>

\* line 89: the completion capability raises while the stream is consumed,
\* on the read of the next fragment or of the end of the stream
StreamFails ==
    /\ pc = "hci_stream"
    /\ Raise("stream")
    /\ UNCHANGED <<history, kind, stream, auth, authStatus, response, pos, acc,
                   h0, hci0, trace, requests, result, calls>>

\* lines 89-94 and 121-124: the stream ends, the appends and the return
StreamEnd ==
    /\ pc = "hci_stream"
    /\ pos = Len(Fragments(response))
    /\ LET res == StreamedResult(history, response, acc)
       IN /\ history' = res.history
          /\ result' = res
          /\ pc' = Return(kind, res.tool_authorization)
    /\ trace' = Append(trace, "append")
    /\ UNCHANGED <<kind, stream, auth, authStatus, response, pos, acc, h0, hci0,
                   requests, raised, calls>>

\* lines 137-145: webbrowser.open(authorization_url)
OpenBrowser ==
    /\ pc = "hta"
    /\ OpensBrowser(auth)
    /\ trace' = Append(trace, "browser")
    /\ pc' = AfterBrowser
    /\ UNCHANGED <<history, kind, stream, auth, authStatus, response, pos, acc,
                   h0, hci0, requests, result, raised, calls>>

\* line 139: the browser launcher raises
BrowserFails ==
    /\ pc = "hta"
    /\ OpensBrowser(auth)
    /\ Raise("browser")
    /\ UNCHANGED <<history, kind, stream, auth, authStatus, response, pos, acc,
                   h0, hci0, trace, requests, result, calls>>

\* line 137: no URL, the browser step is skipped
NoUrl ==
    /\ pc = "hta"
    /\ ~OpensBrowser(auth)
    /\ pc' = AfterBrowser
    /\ UNCHANGED <<history, kind, stream, auth, authStatus, response, pos, acc,
                   h0, hci0, trace, requests, result, raised, calls>>

\* line 147: wait_for_authorization_completion is entered
EnterWait ==
    /\ pc = "hta_wait"
    /\ trace' = Append(trace, "wait")
    /\ pc' = "hta_waiting"
    /\ UNCHANGED <<history, kind, stream, auth, authStatus, response, pos, acc,
                   h0, hci0, requests, result, raised, calls>>

\* the user completes the authorization, in the browser or out of band
AuthorizationResolves ==
    /\ pc \in {"hta", "hta_wait", "hta_waiting"}
    /\ authStatus = "pending"
    /\ authStatus' = "resolved"
    /\ UNCHANGED <<history, pc, kind, stream, auth, response, pos, acc, h0, hci0,
                   trace, requests, result, raised, calls>>

\* line 147: the wait returns
WaitReturns ==
    /\ pc = "hta_waiting"
    /\ wait_for_authorization_completion(authStatus)
    /\ pc' = AfterWait
    /\ UNCHANGED <<history, kind, stream, auth, authStatus, response, pos, acc,
                   h0, hci0, trace, requests, result, raised, calls>>

\* line 147: the authorization poll raises
WaitFails ==
    /\ pc = "hta_waiting"
    /\ Raise("wait")
    /\ UNCHANGED <<history, kind, stream, auth, authStatus, response, pos, acc,
                   h0, hci0, trace, requests, result, calls>>

\* lines 152-153: history.pop(), then handle_chat_interaction is entered
Pop ==
    /\ pc = "hta_pop"
    /\ history # <<>>
    /\ history' = PopHistory(history)
    /\ hci0' = history'
    /\ trace' = Append(trace, "pop")
    /\ pc' = "hci"
    /\ UNCHANGED <<kind, stream, auth, authStatus, response, pos, acc, h0,
                   requests, result, raised, calls>>

Next ==
    \/ \E s \in BOOLEAN : CallChat(s)
    \/ CallAuth
    \/ CompletionFails
    \/ \E r \in Responses : NonStreamed(r)
    \/ \E r \in Responses : StreamOpen(r)
    \/ StreamFragment
    \/ StreamFails
    \/ StreamEnd
    \/ OpenBrowser
    \/ BrowserFails
    \/ NoUrl
    \/ EnterWait
    \/ AuthorizationResolves
    \/ WaitReturns
    \/ WaitFails
    \/ Pop

Spec == Init /\ [][Next]_vars

TypeOK ==
    /\ pc \in {"idle", "hci", "hci_stream", "hta", "hta_wait", "hta_waiting", "hta_pop"}
    /\ kind \in {"none", "chat", "auth"}
    /\ stream \in BOOLEAN
    /\ auth \in Authorizations
    /\ authStatus \in {"none", "pending", "resolved"}
    /\ raised \in {"none", "completion", "stream", "browser", "wait"}
    /\ calls \in 0..MaxCalls

-----------------------------------------------------------------------------
(* Vocabulary of the properties *)

Last(q) == q[Len(q)]

IsPrefix(a, b) == Len(a) <= Len(b) /\ SubSeq(b, 1, Len(a)) = a

\* the top-level call has returned a result to the caller
Returned == pc = "idle" /\ result.returned

\* the reply is an authorization request: role assistant with a payload
AuthorizationReply(r) == r.role = "assistant" /\ r.tool_authorization.present

\* the text of a reply, the absent content read as the empty string
TextOf(c) == IF c.isNone THEN <<>> ELSE c.text

\* the turn a reply is recorded as: the links of a rendered assistant reply
\* are wrapped, any other text is kept as received
RecordedTurn(r) ==
    [role |-> r.role,
     content |-> IF r.role = "assistant" /\ ~r.tool_authorization.present
                 THEN markdownify_urls(TextOf(r.content))
                 ELSE TextOf(r.content)]

\* the number of times the reply was sent to the display sink
Renders == Count(trace, "render")

\* the steps of handle_tool_authorization, in order, up to its request
AuthorizationSteps ==
    (IF auth.url # <<>> THEN <<"browser">> ELSE <<>>) \o <<"wait", "pop", "request">>

\* two sequences agree wherever both are defined
Agree(a, b) ==
    \A i \in 1..(IF Len(a) <= Len(b) THEN Len(a) ELSE Len(b)) : a[i] = b[i]

-----------------------------------------------------------------------------
(* C1 *)

\* C1 as stated: a non-streamed reply with role assistant and no
\* authorization payload leaves result.history = H ++ tool_messages ++
\* [{role: assistant, content: reply}], reply being the content of the
\* completion reply as received.
C1_AsStated ==
    (Returned /\ ~stream /\ response.role = "assistant"
        /\ ~response.tool_authorization.present)
    => /\ ~response.content.isNone
       /\ result.history =
            (hci0 \o response.tool_messages)
            \o <<[role |-> "assistant", content |-> response.content.text]>>

\* C1 amended: for a non-streamed reply with role assistant and no
\* authorization payload, result.history is H followed by the reply's
\* tool_messages followed by exactly one turn {role: assistant, content: c},
\* where c is the reply's content with every URL wrapped as a markdown link
\* and an absent content read as the empty string.
C1_HistoryAfterReply ==
    (Returned /\ ~stream /\ response.role = "assistant"
        /\ ~response.tool_authorization.present)
    => /\ result.history =
            (hci0 \o response.tool_messages)
            \o <<[role |-> "assistant",
                  content |-> markdownify_urls(TextOf(response.content))]>>
       /\ history = result.history

C1_Witness ==
    /\ Returned /\ ~stream /\ kind = "chat"
    /\ response.role = "assistant"
    /\ ~response.tool_authorization.present
    /\ response.content.text = <<"url">>
    /\ response.tool_messages # <<>>
    /\ hci0 # <<>>

-----------------------------------------------------------------------------
(* C2 *)

\* C2: while and after a reply with role assistant and an authorization
\* payload is handled, nothing of it has been sent to the display sink; a
\* non-streamed call that returns any other reply has rendered it exactly
\* once.
C2_Suppression ==
    /\ AuthorizationReply(response) => Renders = 0
    /\ (Returned /\ ~stream /\ ~AuthorizationReply(response)) => Renders = 1

C2_Witness ==
    /\ Returned /\ ~stream
    /\ AuthorizationReply(response)
    /\ response.content.text # <<>>

-----------------------------------------------------------------------------
(* C3 *)

\* C3: when handle_tool_authorization returns, the result's history is the
\* history it was called with, less its last turn, every other turn
\* unchanged and in order, followed by what the chat turn on that shorter
\* history appends: the new tool_messages and then one reply turn.
C3_AuthorizationReplay ==
    (Returned /\ kind = "auth")
    => /\ h0 # <<>>
       /\ result.tool_messages = response.tool_messages
       /\ result.history =
            (SubSeq(h0, 1, Len(h0) - 1) \o response.tool_messages)
            \o <<RecordedTurn(response)>>
       /\ history = result.history

C3_Witness ==
    /\ Returned /\ kind = "auth"
    /\ Len(h0) >= 2
    /\ Last(h0).role = "assistant"
    /\ response.tool_messages # <<>>
    /\ ~response.tool_authorization.present

-----------------------------------------------------------------------------
(* C4 *)

\* full_message += chunk, over all the fragments of a stream
RECURSIVE Accumulate(_)
Accumulate(frs) ==
    IF frs = <<>> THEN <<>> ELSE <<Head(frs)>> \o Accumulate(Tail(frs))

-----------------------------------------------------------------------------
(* C5 *)

\* C5: every step leaves the history alone, or extends it at its end inside
\* handle_chat_interaction, or removes exactly its last turn at the pop of
\* handle_tool_authorization, before the replay has issued its request or
\* appended anything; the replay starts on the call's history less its last
\* turn, and a handle_tool_authorization call that returns has popped once.
C5_AppendOnlyButPop ==
    [][ /\ \/ history' = history
           \/ /\ pc \in {"hci", "hci_stream"}
              /\ IsPrefix(history, history')
           \/ /\ pc = "hta_pop"
              /\ history # <<>>
              /\ history' = SubSeq(history, 1, Len(history) - 1)
              /\ requests = <<>>
              /\ Count(trace, "append") = 0
              /\ Count(trace, "pop") = 0
        /\ (pc \in {"hci", "hci_stream"}) => Len(history') >= Len(history)
        /\ (kind = "auth" /\ pc = "hci") =>
              /\ history = SubSeq(h0, 1, Len(h0) - 1)
              /\ Len(h0) >= 1
        /\ (kind' = "auth" /\ pc' = "idle" /\ result'.returned) =>
              Count(trace', "pop") = 1
      ]_vars

C5_Witness ==
    /\ Returned /\ kind = "auth"
    /\ Len(h0) >= 2
    /\ Count(trace, "pop") = 1
    /\ Len(history) > Len(h0)

-----------------------------------------------------------------------------
(* C6 *)

\* C6: the effects of a handle_tool_authorization call come in the order
\* browser (if and only if the request carries a URL), wait, pop, request;
\* past the browser step the browser has been opened exactly when there is
\* a URL; a call that returns has waited once; the pop and the replay happen
\* only when the authorization is resolved.
C6_AuthorizationOrder ==
    kind = "auth" =>
        /\ Agree(trace, AuthorizationSteps)
        /\ (pc \in {"hta_wait", "hta_waiting", "hta_pop", "hci", "hci_stream"}
              \/ Returned)
           => Count(trace, "browser") = (IF auth.url # <<>> THEN 1 ELSE 0)
        /\ Returned => Count(trace, "wait") = 1
        /\ (pc \in {"hta_pop", "hci", "hci_stream"} \/ Count(trace, "pop") > 0
              \/ requests # <<>> \/ Returned)
           => /\ authStatus = "resolved"
              /\ Count(trace, "wait") = 1

C6_Witness ==
    /\ Returned /\ kind = "auth"
    /\ auth.url # <<>>
    /\ SubSeq(trace, 1, 4) = <<"browser", "wait", "pop", "request">>

-----------------------------------------------------------------------------
(* C7 *)

\* C7: a call never issues more than one completion request; once the chat
\* turn has issued it (the stream is being consumed, or the call has
\* returned or raised in the completion), there is exactly one, with tool
\* use permitted, in the call's stream mode, and its messages are the
\* history as it stood when handle_chat_interaction was entered: the
\* caller's history for a chat call, that history less its last turn for
\* handle_tool_authorization.
C7_OneRequest ==
    /\ Len(requests) <= 1
    /\ (pc = "hci_stream" \/ Returned
          \/ (pc = "idle" /\ raised \in {"completion", "stream"}))
       => Len(requests) = 1
    /\ requests # <<>> =>
          /\ requests[1].tool_choice = "generate"
          /\ requests[1].stream = stream
          /\ kind = "chat" => requests[1].messages = h0
          /\ kind = "auth" =>
                requests[1].messages = SubSeq(h0, 1, Len(h0) - 1)
          /\ IsPrefix(requests[1].messages, history)

C7_Witness ==
    /\ Returned /\ kind = "auth"
    /\ Len(requests) = 1
    /\ Len(h0) >= 2
    /\ Len(history) > Len(requests[1].messages)

-----------------------------------------------------------------------------
(* C8 *)

-----------------------------------------------------------------------------
(* C9 *)

\* C9: when the browser launch or the authorization poll fails, the error
\* reaches the caller: the pending turn is still the last turn of the
\* history, the history is as it was at the call, no completion request was
\* issued and no result is returned.
C9_AuthorizationFailure ==
    raised \in {"browser", "wait"}
    => /\ pc = "idle"
       /\ kind = "auth"
       /\ history = h0
       /\ Count(trace, "pop") = 0
       /\ requests = <<>>
       /\ ~result.returned

C9_Witness ==
    /\ raised = "wait"
    /\ pc = "idle"
    /\ authStatus = "resolved"
    /\ Len(h0) >= 2
    /\ Last(h0).role = "assistant"

-----------------------------------------------------------------------------
(* C10 *)

====
